---- MODULE Spec2Model ----
(***************************************************************************)
(* Model of src/analysis.py: the household expenditure pipeline            *)
(*   sanity_check -> compute_national_share -> compute_lorenz_curve_and_gini*)
(*                                                                          *)
(* Tables are modelled as follows.                                          *)
(*   df_households : function hh_id -> [weight, hh_size]   (hh_id unique)   *)
(*   df_products   : function product_id -> coicop_survey_1 (id unique)     *)
(*   df_expenses   : sequence of rows [hh_id, product_id, annual_expenditure]*)
(* Floating point numbers are modelled as exact rationals [n, d] in lowest  *)
(* terms with d > 0; the record with d = 0 is NaN (the result of 0/0).      *)
(* Sequence positions are 1-based here and 0-based in the source.           *)
(***************************************************************************)
EXTENDS Integers, Sequences, FiniteSets

VARIABLES df_households, df_products, df_expenses, pc,
          sanity_msg, nan_warnings,
          national_expenditure, df_national_share,
          distribution, nearest_fifty, fifty_percentile_share, gini,
          output_dir_exists, fs_ops

vars == <<df_households, df_products, df_expenses, pc,
          sanity_msg, nan_warnings,
          national_expenditure, df_national_share,
          distribution, nearest_fifty, fifty_percentile_share, gini,
          output_dir_exists, fs_ops>>

(***************************************************************************)
(* Bounds of the model                                                     *)
(***************************************************************************)
MaxHh == 3
MaxRows == 3

\* value domains of the input columns
Weights == {1, 2}
Sizes == {1, 2}
Amounts == {0, 1, 2}
\* category codes carried by products: three recognised ones and one outside "1".."12"
Codes == {1, 2, 3, 13}
\* product identifiers of the catalogue
ProductIds == {1, 2, 3}
\* a missing (NaN) cell of expenses.annual_expenditure
Missing == 0 - 1

(***************************************************************************)
(* Exact rational arithmetic standing for float64                          *)
(***************************************************************************)
Abs(x) == IF x < 0 THEN 0 - x ELSE x

RECURSIVE GCD(_, _)
GCD(a, b) == IF b = 0 THEN a ELSE GCD(b, a % b)

NaN == [n |-> 0, d |-> 0]

IsNaN(a) == a.d = 0

\* n / d for integers n, d; 0/0 is NaN as in numpy/pandas (no exception is raised).
\* A non-zero numerator over 0 (inf) does not arise: every divisor in the program
\* is a sum of non-negative terms that includes the numerator.
Div(n, d) ==
    IF d = 0 THEN NaN
    ELSE LET s == IF d < 0 THEN 0 - 1 ELSE 1
             g == GCD(Abs(n), Abs(d))
         IN [n |-> (s * n) \div g, d |-> (s * d) \div g]

Rat(k) == [n |-> k, d |-> 1]

FAdd(a, b) == IF IsNaN(a) \/ IsNaN(b) THEN NaN ELSE Div(a.n * b.d + b.n * a.d, a.d * b.d)
FSub(a, b) == IF IsNaN(a) \/ IsNaN(b) THEN NaN ELSE Div(a.n * b.d - b.n * a.d, a.d * b.d)
FMul(a, b) == IF IsNaN(a) \/ IsNaN(b) THEN NaN ELSE Div(a.n * b.n, a.d * b.d)
FAbs(a) == [n |-> Abs(a.n), d |-> a.d]

\* comparisons with NaN are false
FLeq(a, b) == ~IsNaN(a) /\ ~IsNaN(b) /\ a.n * b.d <= b.n * a.d
FLt(a, b) == ~IsNaN(a) /\ ~IsNaN(b) /\ a.n * b.d < b.n * a.d
FEq(a, b) == ~IsNaN(a) /\ ~IsNaN(b) /\ a.n * b.d = b.n * a.d

\* round(2): numpy rounds half to even on the value scaled by 100; NaN stays NaN
Round2(a) ==
    IF IsNaN(a) THEN NaN
    ELSE LET N == 100 * a.n
             fl == N \div a.d
             r == N % a.d
             h == IF 2 * r < a.d THEN fl
                  ELSE IF 2 * r > a.d THEN fl + 1
                  ELSE IF fl % 2 = 0 THEN fl ELSE fl + 1
         IN Div(h, 100)

RECURSIVE SumSet(_, _)
\* sum of f[x] over the finite set S
SumSet(f, S) == IF S = {} THEN 0
                ELSE LET x == CHOOSE y \in S : TRUE IN f[x] + SumSet(f, S \ {x})

RECURSIVE FSumSet(_, _)
FSumSet(f, S) == IF S = {} THEN Rat(0)
                 ELSE LET x == CHOOSE y \in S : TRUE IN FAdd(f[x], FSumSet(f, S \ {x}))

RECURSIVE PrefixSum(_, _)
\* s[1] + ... + s[i], added left to right
PrefixSum(s, i) == IF i = 1 THEN s[1] ELSE FAdd(PrefixSum(s, i - 1), s[i])

\* np.cumsum over a sequence of rationals
CumSum(s) == [i \in 1..Len(s) |-> PrefixSum(s, i)]

RECURSIVE SumSeq(_)
\* sum of a sequence of integers, skipping missing cells (pandas sums skip NaN)
SumSeq(s) == IF Len(s) = 0 THEN 0
             ELSE (IF s[1] = Missing THEN 0 ELSE s[1]) + SumSeq(Tail(s))

(***************************************************************************)
(* sanity_check                                                            *)
(***************************************************************************)
household_ids == DOMAIN df_households

expense_ids == {df_expenses[i].hh_id : i \in 1..Len(df_expenses)}

SubsetMessageReversed(hids, eids) ==
    IF eids \subseteq hids THEN "every household has expenses recorded"
    ELSE "Warning: Some households do not have recorded expenses."

\* the branch of the subset test: which of the two messages is printed
SubsetMessage(hids, eids) ==
    IF hids \subseteq eids THEN "every household has expenses recorded"
    ELSE "Warning: Some households do not have recorded expenses."

\* datasets for which a missing-value warning is printed
NanDatasets ==
    (IF \E h \in DOMAIN df_households :
           df_households[h].weight = Missing \/ df_households[h].hh_size = Missing
     THEN {"households"} ELSE {})
    \cup
    (IF \E i \in 1..Len(df_expenses) : df_expenses[i].annual_expenditure = Missing
     THEN {"expenses"} ELSE {})
    \cup
    (IF \E p \in DOMAIN df_products : df_products[p] = Missing
     THEN {"products"} ELSE {})

(***************************************************************************)
(* compute_national_share                                                  *)
(***************************************************************************)
coicop_mapping ==
    [c \in {"1", "2", "3", "4", "5", "6", "7", "8", "9", "10", "11", "12"} |->
        CASE c = "1" -> "FOOD AND NON-ALCOHOLIC BEVERAGES"
          [] c = "2" -> "ALCOHOLIC BEVERAGES, TOBACCO AND NARCOTICS"
          [] c = "3" -> "CLOTHING AND FOOTWEAR"
          [] c = "4" -> "HOUSING, WATER, ELECTRICITY, GAS AND OTHER FUELS"
          [] c = "5" -> "FURNISHINGS, HOUSEHOLD EQUIPMENT AND ROUTINE HOUSEHOLD MAINTENANCE"
          [] c = "6" -> "HEALTH"
          [] c = "7" -> "TRANSPORT"
          [] c = "8" -> "COMMUNICATION"
          [] c = "9" -> "RECREATION AND CULTURE"
          [] c = "10" -> "EDUCATION"
          [] c = "11" -> "RESTAURANTS AND HOTELS"
          [] c = "12" -> "MISCELLANEOUS GOODS AND SERVICES"]

\* astype(str) on the integer code column
AsStr(code) ==
    CASE code = 1 -> "1" [] code = 2 -> "2" [] code = 3 -> "3" [] code = 4 -> "4"
      [] code = 5 -> "5" [] code = 6 -> "6" [] code = 7 -> "7" [] code = 8 -> "8"
      [] code = 9 -> "9" [] code = 10 -> "10" [] code = 11 -> "11" [] code = 12 -> "12"
      [] code = 13 -> "13" [] code = 14 -> "14"
      [] OTHER -> "other"

\* the missing category marker produced by Series.map for a key outside the mapping
NoCategory == "NaN"

MapCategory(code) ==
    IF AsStr(code) \in DOMAIN coicop_mapping THEN coicop_mapping[AsStr(code)] ELSE NoCategory

\* df_expenses.merge(df_products, on='product_id'): inner join, left order kept
MergeProducts(expenses, products) ==
    LET kept == SelectSeq(expenses, LAMBDA r : r.product_id \in DOMAIN products)
    IN [i \in 1..Len(kept) |->
          [hh_id |-> kept[i].hh_id, product_id |-> kept[i].product_id,
           annual_expenditure |-> kept[i].annual_expenditure,
           coicop_survey_1 |-> products[kept[i].product_id]]]

\* .merge(df_households[['hh_id', 'weight']], on='hh_id'): inner join
MergeWeights(rows, households) ==
    LET kept == SelectSeq(rows, LAMBDA r : r.hh_id \in DOMAIN households)
    IN [i \in 1..Len(kept) |->
          [hh_id |-> kept[i].hh_id, product_id |-> kept[i].product_id,
           annual_expenditure |-> kept[i].annual_expenditure,
           coicop_survey_1 |-> kept[i].coicop_survey_1,
           weight |-> households[kept[i].hh_id].weight]]

\* the two derived columns coicop_category and weighted_expenditure
WithDerived(rows) ==
    [i \in 1..Len(rows) |->
          [hh_id |-> rows[i].hh_id, product_id |-> rows[i].product_id,
           annual_expenditure |-> rows[i].annual_expenditure,
           coicop_survey_1 |-> rows[i].coicop_survey_1,
           weight |-> rows[i].weight,
           coicop_category |-> MapCategory(rows[i].coicop_survey_1),
           weighted_expenditure |->
               IF rows[i].annual_expenditure = Missing THEN Missing
               ELSE rows[i].annual_expenditure * rows[i].weight]]

MergedExpenses(expenses, products, households) ==
    WithDerived(MergeWeights(MergeProducts(expenses, products), households))

\* the groups of groupby('coicop_category'): rows whose key is missing form no group
GroupKeys(rows) == {rows[i].coicop_category : i \in 1..Len(rows)} \ {NoCategory}

\* groupby('coicop_category')['weighted_expenditure'].sum()
GroupBySum(rows) ==
    [c \in GroupKeys(rows) |->
        LET g == SelectSeq(rows, LAMBDA r : r.coicop_category = c)
        IN SumSeq([i \in 1..Len(g) |-> g[i].weighted_expenditure])]

TotalExpenditureAllRows(sums, rows) ==
    SumSeq([i \in 1..Len(rows) |-> rows[i].weighted_expenditure])

\* total_expenditure = df_national_expenditure.sum()
TotalExpenditure(sums, rows) == SumSet(sums, DOMAIN sums)

\* (df_national_expenditure / total_expenditure) * 100, then round(2)
NationalShare(sums, total) ==
    [c \in DOMAIN sums |-> Round2(FMul(Div(sums[c], total), Rat(100)))]

MakeDirsSkipped(exists) == exists

\* os.makedirs(output_dir, exist_ok=True): afterwards the directory exists
MakeDirs(exists) == TRUE

(***************************************************************************)
(* compute_lorenz_curve_and_gini                                           *)
(***************************************************************************)
RECURSIVE SortedIds(_)
\* the keys of a groupby, ascending
SortedIds(S) == IF S = {} THEN <<>>
                ELSE LET m == CHOOSE x \in S : \A y \in S : x <= y
                     IN <<m>> \o SortedIds(S \ {m})

\* df_expenses.groupby("hh_id")["annual_expenditure"].sum().reset_index()
HouseholdTotals(expenses) ==
    LET ids == SortedIds({expenses[i].hh_id : i \in 1..Len(expenses)})
    IN [k \in 1..Len(ids) |->
          LET g == SelectSeq(expenses, LAMBDA r : r.hh_id = ids[k])
          IN [hh_id |-> ids[k],
              annual_expenditure |-> SumSeq([i \in 1..Len(g) |-> g[i].annual_expenditure])]]

\* total_expenditure.merge(df_households, on="hh_id"): inner join, then the
\* per_capita_expenditure column
MergeHouseholds(totals, households) ==
    LET kept == SelectSeq(totals, LAMBDA r : r.hh_id \in DOMAIN households)
    IN [i \in 1..Len(kept) |->
          [hh_id |-> kept[i].hh_id,
           annual_expenditure |-> kept[i].annual_expenditure,
           weight |-> households[kept[i].hh_id].weight,
           hh_size |-> households[kept[i].hh_id].hh_size,
           per_capita_expenditure |->
               Div(kept[i].annual_expenditure, households[kept[i].hh_id].hh_size)]]

SortValuesUnsorted(t) == {t}

RECURSIVE OrdersByTotal(_, _)
OrdersByTotal(t, I) ==
    IF I = {} THEN {<<>>}
    ELSE UNION {{<<t[i]>> \o r : r \in OrdersByTotal(t, I \ {i})} :
                  i \in {j \in I : \A k \in I :
                            t[j].annual_expenditure <= t[k].annual_expenditure}}

SortValuesByTotal(t) == OrdersByTotal(t, 1..Len(t))

RECURSIVE AscendingOrders(_, _)
\* the orders of the rows with positions I in which per_capita_expenditure ascends:
\* any row with the least key comes first
AscendingOrders(t, I) ==
    IF I = {} THEN {<<>>}
    ELSE UNION {{<<t[i]>> \o r : r \in AscendingOrders(t, I \ {i})} :
                  i \in {j \in I : \A k \in I :
                            FLeq(t[j].per_capita_expenditure, t[k].per_capita_expenditure)}}

\* sort_values("per_capita_expenditure"): the default sort is not stable, so rows
\* with equal keys may come out in any order; every such order is a result
SortValues(t) == AscendingOrders(t, 1..Len(t))

\* np.cumsum(values / total)
CumShare(values, total) == CumSum([i \in 1..Len(values) |-> Div(values[i], total)])

\* the population weights hh_size * weight
PopWeights(t) == [i \in 1..Len(t) |-> t[i].hh_size * t[i].weight]

\* the weighted expenditures annual_expenditure * weight
ExpWeights(t) == [i \in 1..Len(t) |-> t[i].annual_expenditure * t[i].weight]

\* np.cumsum(hh_size * weight / np.sum(hh_size * weight))
CumPop(t) == CumShare(PopWeights(t), SumSeq(PopWeights(t)))

CumExpUnweightedTotal(t) ==
    CumShare(ExpWeights(t), SumSeq([i \in 1..Len(t) |-> t[i].annual_expenditure]))

\* np.cumsum(annual_expenditure * weight / np.sum(annual_expenditure * weight))
CumExp(t) == CumShare(ExpWeights(t), SumSeq(ExpWeights(t)))

\* the table with its two new columns
AddColumns(t, cp, ce) ==
    [i \in 1..Len(t) |->
          [hh_id |-> t[i].hh_id, annual_expenditure |-> t[i].annual_expenditure,
           weight |-> t[i].weight, hh_size |-> t[i].hh_size,
           per_capita_expenditure |-> t[i].per_capita_expenditure,
           cum_pop |-> cp[i], cum_exp |-> ce[i]]]

WithCumulative(t) == AddColumns(t, CumPop(t), CumExp(t))

RECURSIVE ArgMinScan(_, _, _)
ArgMinScan(s, i, best) ==
    IF i > Len(s) THEN best
    ELSE ArgMinScan(s, i + 1, IF FLt(s[i], s[best]) THEN i ELSE best)

RECURSIVE ArgMinLastScan(_, _, _)
ArgMinLastScan(s, i, best) ==
    IF i > Len(s) THEN best
    ELSE ArgMinLastScan(s, i + 1, IF FLeq(s[i], s[best]) THEN i ELSE best)

ArgMinLast(s) == ArgMinLastScan(s, 2, 1)

\* np.argmin of a non-empty sequence: the first position of the minimum
ArgMin(s) == ArgMinScan(s, 2, 1)

\* np.abs(cum_pop - 0.5)
DistanceToHalf(t) == [i \in 1..Len(t) |-> FAbs(FSub(t[i].cum_pop, Div(1, 2)))]

\* (100 * cum_exp[nearest_fifty]).round(2)
FiftyPercentileShare(t, k) == Round2(FMul(Rat(100), t[k].cum_exp))

RECURSIVE TrapezoidUpTo(_, _, _)
\* the trapezoids between the points 1..n
TrapezoidUpTo(y, x, n) ==
    IF n <= 1 THEN Rat(0)
    ELSE FAdd(TrapezoidUpTo(y, x, n - 1),
              FMul(FMul(FSub(x[n], x[n - 1]), FAdd(y[n], y[n - 1])), Div(1, 2)))

\* np.trapezoid(y, x): sum of (x[i+1] - x[i]) * (y[i+1] + y[i]) / 2
Trapezoid(y, x) == TrapezoidUpTo(y, x, Len(x))

\* gini = 1 - 2 * np.trapezoid(lorenz_y, lorenz_x)
Gini(t) ==
    FSub(Rat(1), FMul(Rat(2), Trapezoid([i \in 1..Len(t) |-> t[i].cum_exp],
                                        [i \in 1..Len(t) |-> t[i].cum_pop])))

(***************************************************************************)
(* Inputs                                                                  *)
(***************************************************************************)
HouseholdTables(ids, ws, ss) ==
    UNION {[D -> [weight : ws, hh_size : ss]] : D \in SUBSET ids}

\* household tables whose identifiers are 1..k for some k <= n: the identifiers
\* missing from the table are the highest ones
HouseholdTablesUpTo(n, ws, ss) ==
    UNION {[1..k -> [weight : ws, hh_size : ss]] : k \in 0..n}

ProductTables(ids, codes) == UNION {[D -> codes] : D \in SUBSET ids}

\* position of a row in a fixed total order of rows
RowKey(r) == (r.hh_id * 8 + r.product_id) * 8 + r.annual_expenditure + 1

\* expense tables of at most n rows over the given columns' values.  Nothing in
\* the program depends on the order of the rows of expenses.csv (it builds a set,
\* joins, and sums groups), so one table per multiset of rows is enumerated.
ExpenseTables(hids, pids, amts, n) ==
    LET R == [hh_id : hids, product_id : pids, annual_expenditure : amts]
    IN UNION {{s \in [1..k -> R] :
                  \A i \in 1..(k - 1) : RowKey(s[i]) <= RowKey(s[i + 1])} : k \in 0..n}

\* everything the stages have not produced yet
NoResults ==
    /\ sanity_msg = "" /\ nan_warnings = {}
    /\ national_expenditure = <<>> /\ df_national_share = <<>>
    /\ distribution = <<>> /\ nearest_fifty = 0
    /\ fifty_percentile_share = NaN /\ gini = NaN
    /\ fs_ops = <<>>

\* load_data followed by __main__: any three tables, output directory present or not
Init ==
    /\ df_households \in HouseholdTables(1..MaxHh, {1}, {1})
    /\ df_products \in ProductTables({1}, {1, 13})
    /\ df_expenses \in ExpenseTables(1..MaxHh, {1}, {Missing, 1}, MaxRows)
    /\ output_dir_exists \in BOOLEAN
    /\ pc = "sanity_check"
    /\ NoResults

\* compute_national_share called on valid tables
InitShare ==
    /\ df_households \in HouseholdTables({1, 2}, Weights, {1})
    /\ df_products \in ProductTables(ProductIds, Codes)
    /\ df_expenses \in ExpenseTables({1, 2}, ProductIds, {0, 1}, MaxRows)
    /\ output_dir_exists = FALSE
    /\ pc = "compute_national_share"
    /\ NoResults

\* compute_lorenz_curve_and_gini called on valid tables, after the share stage
InitLorenz ==
    /\ df_expenses \in ExpenseTables(1..MaxHh, {1}, Amounts, MaxRows)
    /\ df_households \in HouseholdTablesUpTo(MaxHh, Weights, Sizes)
    /\ df_products = [p \in {1} |-> 1]
    /\ output_dir_exists = TRUE
    /\ pc = "compute_lorenz_curve_and_gini"
    /\ NoResults

(***************************************************************************)
(* The stages                                                              *)
(***************************************************************************)
SanityCheck ==
    /\ pc = "sanity_check"
    /\ sanity_msg' = SubsetMessage(household_ids, expense_ids)
    /\ nan_warnings' = NanDatasets
    /\ pc' = "compute_national_share"
    /\ UNCHANGED <<df_households, df_products, df_expenses,
                   national_expenditure, df_national_share,
                   distribution, nearest_fifty, fifty_percentile_share, gini,
                   output_dir_exists, fs_ops>>

ComputeNationalShare ==
    /\ pc = "compute_national_share"
    /\ \E rows \in {MergedExpenses(df_expenses, df_products, df_households)} :
       \E sums \in {GroupBySum(rows)} :
       \E made \in {MakeDirs(output_dir_exists)} :
          /\ national_expenditure' = sums
          /\ df_national_share' = NationalShare(sums, TotalExpenditure(sums, rows))
          /\ output_dir_exists' = made
          /\ fs_ops' = fs_ops \o
                 << [op |-> "makedirs", path |-> "output", dir_existed |-> output_dir_exists],
                    [op |-> "write", path |-> "output/national_share.csv", dir_existed |-> made] >>
          \* to_csv into a directory that does not exist raises OSError
          /\ pc' = IF made THEN "compute_lorenz_curve_and_gini" ELSE "crashed"
    /\ UNCHANGED <<df_households, df_products, df_expenses, sanity_msg, nan_warnings,
                   distribution, nearest_fifty, fifty_percentile_share, gini>>

ComputeLorenzCurveAndGini ==
    /\ pc = "compute_lorenz_curve_and_gini"
    /\ \E merged \in {MergeHouseholds(HouseholdTotals(df_expenses), df_households)} :
          IF Len(merged) = 0
          THEN \* np.argmin of an empty sequence raises ValueError
               /\ pc' = "crashed"
               /\ UNCHANGED <<distribution, nearest_fifty, fifty_percentile_share,
                              gini, fs_ops>>
          ELSE \E sorted \in SortValues(merged) :
               /\ distribution' = WithCumulative(sorted)
               /\ nearest_fifty' = ArgMin(DistanceToHalf(distribution'))
               /\ fifty_percentile_share' = FiftyPercentileShare(distribution', nearest_fifty')
               /\ fs_ops' = Append(fs_ops,
                     [op |-> "write", path |-> "output/lorenz_curve.png",
                      dir_existed |-> output_dir_exists])
               \* savefig into a directory that does not exist raises FileNotFoundError
               /\ IF output_dir_exists
                  THEN gini' = Gini(distribution') /\ pc' = "done"
                  ELSE gini' = gini /\ pc' = "crashed"
    /\ UNCHANGED <<df_households, df_products, df_expenses, sanity_msg, nan_warnings,
                   national_expenditure, df_national_share, output_dir_exists>>

Next == SanityCheck \/ ComputeNationalShare \/ ComputeLorenzCurveAndGini

Spec == Init /\ [][Next]_vars

SpecShare == InitShare /\ [][ComputeNationalShare]_vars

SpecLorenz == InitLorenz /\ [][ComputeLorenzCurveAndGini]_vars

(***************************************************************************)
(* Properties                                                              *)
(***************************************************************************)
\* the weighted total expenditure of the households of the distribution table
DistributionSpending ==
    SumSeq([i \in 1..Len(distribution) |->
               distribution[i].annual_expenditure * distribution[i].weight])

GiniComputed == pc = "done"

InUnitInterval(a) == FLeq(Rat(0), a) /\ FLeq(a, Rat(1))

EqualPerCapita ==
    \A i, j \in 1..Len(distribution) :
        FEq(distribution[i].per_capita_expenditure, distribution[j].per_capita_expenditure)

\* C2: when every household has the same per-capita expenditure the Gini
\* coefficient is approximately 0 (here: at most 1/100 in absolute value).
C2_EqualDistributionGiniZero ==
    (GiniComputed /\ EqualPerCapita) => FLeq(FAbs(gini), Div(1, 100))

\* rows of the expense table that survive both joins
MatchedRows ==
    SelectSeq(df_expenses, LAMBDA r : r.product_id \in DOMAIN df_products
                                      /\ r.hh_id \in DOMAIN df_households)

ShareComputed == pc # "compute_national_share" /\ pc # "sanity_check"

GrandTotal == SumSet(national_expenditure, DOMAIN national_expenditure)

SharesSumTo100 ==
    FLeq(FAbs(FSub(FSumSet(df_national_share, DOMAIN df_national_share), Rat(100))),
         Div(Cardinality(DOMAIN df_national_share), 100))

\* C3 (as stated): for all valid inputs the Share (%) values sum to 100 within
\* 0.01 x (number of categories in the output); stated here for the outputs that
\* have at least one category.
C3_SharesSumTo100 ==
    (ShareComputed /\ DOMAIN df_national_share # {}) => SharesSumTo100

\* C3 (amended): whenever the grand total of the category sums is positive, the
\* Share (%) values sum to 100 within 0.01 x (number of categories in the output),
\* also when rows carry an unrecognised code or are dropped by the joins.
C3_SharesSumTo100WhenTotalPositive == (ShareComputed /\ GrandTotal > 0) => SharesSumTo100

C3_Witness ==
    /\ ShareComputed /\ GrandTotal > 0
    /\ \E i \in 1..Len(MatchedRows) :
          MapCategory(df_products[MatchedRows[i].product_id]) = NoCategory
    /\ \E c \in DOMAIN df_national_share :
          ~FEq(df_national_share[c], Div(100 * national_expenditure[c], GrandTotal))

SanityChecked == pc # "sanity_check"

SanityWarning == sanity_msg = "Warning: Some households do not have recorded expenses."

\* C4 (as stated): when the expense table references a household identifier that
\* is absent from the household table, sanity_check reports the warning.
C4_WarnsOnUnknownExpenseHousehold ==
    (SanityChecked /\ \E i \in 1..Len(df_expenses) :
                          df_expenses[i].hh_id \notin DOMAIN df_households)
        => SanityWarning

\* C4 (amended): sanity_check reports the warning exactly when the household table
\* holds a household identifier that no expense row references.
C4_WarnsOnHouseholdWithoutExpenses ==
    SanityChecked =>
        (SanityWarning <=>
            \E h \in DOMAIN df_households :
                \A i \in 1..Len(df_expenses) : df_expenses[i].hh_id # h)

C4_Witness ==
    /\ SanityChecked /\ SanityWarning
    /\ \E h \in DOMAIN df_households :
          \A i \in 1..Len(df_expenses) : df_expenses[i].hh_id # h

\* C5: when a row's product has a category code outside "1".."12", the output has
\* a bucket for the missing category holding those rows' weighted expenditure.
C5_UnmappedBucket ==
    (ShareComputed /\ \E i \in 1..Len(MatchedRows) :
                          MapCategory(df_products[MatchedRows[i].product_id]) = NoCategory)
        => /\ NoCategory \in DOMAIN df_national_share
           /\ NoCategory \in DOMAIN national_expenditure

NonDecreasing(s) == \A i \in 1..(Len(s) - 1) : FLeq(s[i], s[i + 1])

CumPopSeq == [i \in 1..Len(distribution) |-> distribution[i].cum_pop]

CumExpSeq == [i \in 1..Len(distribution) |-> distribution[i].cum_exp]

\* C6 (as stated): cum_pop and cum_exp are non-decreasing along the sorted order
\* and their final value equals 1.
C6_CumulativeShares ==
    Len(distribution) > 0 =>
        /\ NonDecreasing(CumPopSeq) /\ FEq(CumPopSeq[Len(distribution)], Rat(1))
        /\ NonDecreasing(CumExpSeq) /\ FEq(CumExpSeq[Len(distribution)], Rat(1))

\* C6 (amended): cum_pop is non-decreasing and ends at 1; cum_exp is non-decreasing
\* and ends at 1 whenever the weighted total expenditure of the table is positive.
C6_CumulativeSharesWhenSpending ==
    Len(distribution) > 0 =>
        /\ NonDecreasing(CumPopSeq) /\ FEq(CumPopSeq[Len(distribution)], Rat(1))
        /\ DistributionSpending > 0 =>
              NonDecreasing(CumExpSeq) /\ FEq(CumExpSeq[Len(distribution)], Rat(1))

C6_Witness ==
    /\ Len(distribution) >= 3 /\ DistributionSpending > 0
    /\ distribution[1].annual_expenditure = 0
    /\ FEq(distribution[2].cum_exp, distribution[1].cum_exp)
    /\ FLt(distribution[2].cum_exp, distribution[3].cum_exp)

\* the weighted expenditure of the rows that survive both joins
MatchedSpending ==
    SumSeq([i \in 1..Len(MatchedRows) |->
               MatchedRows[i].annual_expenditure
                   * df_households[MatchedRows[i].hh_id].weight])

\* C7: a row counts, with annual_expenditure x weight, in one category sum and in
\* the grand total exactly when its product_id and its hh_id both match; hence the
\* grand total is the weighted expenditure of the matched rows.
C7_MatchedRowsCounted == ShareComputed => GrandTotal = MatchedSpending

\* C8: no output file is written while the output directory does not exist.
C8_DirectoryExistsAtEachWrite ==
    \A i \in 1..Len(fs_ops) : fs_ops[i].op = "write" => fs_ops[i].dir_existed

C8_Witness ==
    /\ pc = "done" /\ Len(fs_ops) = 3
    /\ fs_ops[1].op = "makedirs" /\ ~fs_ops[1].dir_existed
    /\ fs_ops[2].path = "output/national_share.csv"
    /\ fs_ops[3].path = "output/lorenz_curve.png"

HalfDistance(i) == FAbs(FSub(distribution[i].cum_pop, Div(1, 2)))

\* C9: nearest_fifty is the first row, in sorted order, among those minimising
\* |cum_pop - 0.5|, and the reported share is 100 x its cum_exp rounded to 2 decimals.
C9_NearestFiftyFirstMinimum ==
    Len(distribution) > 0 =>
        /\ nearest_fifty \in 1..Len(distribution)
        /\ \A j \in 1..Len(distribution) : FLeq(HalfDistance(nearest_fifty), HalfDistance(j))
        /\ \A j \in 1..(nearest_fifty - 1) : FLt(HalfDistance(nearest_fifty), HalfDistance(j))
        /\ LET y == distribution[nearest_fifty].cum_exp
           IN IF IsNaN(y) THEN IsNaN(fifty_percentile_share)
              ELSE /\ 100 % fifty_percentile_share.d = 0
                   /\ FLeq(FAbs(FSub(fifty_percentile_share, FMul(Rat(100), y))),
                           Div(1, 200))

C9_Witness ==
    /\ Len(distribution) > 0
    /\ \E j \in 1..Len(distribution) :
          j > nearest_fifty /\ FEq(HalfDistance(j), HalfDistance(nearest_fifty))
    /\ ~FEq(fifty_percentile_share,
            FMul(Rat(100), distribution[nearest_fifty].cum_exp))
    /\ ~IsNaN(fifty_percentile_share)

\* C10 (as stated): cum_exp <= cum_pop on every row of the sorted table.
C10_LorenzBelowDiagonal ==
    \A i \in 1..Len(distribution) : FLeq(distribution[i].cum_exp, distribution[i].cum_pop)

\* C10 (amended): cum_exp <= cum_pop on every row of the sorted table whenever the
\* weighted total expenditure of the table is positive.
C10_LorenzBelowDiagonalWhenSpending ==
    DistributionSpending > 0 => C10_LorenzBelowDiagonal

C10_Witness ==
    /\ Len(distribution) >= 2 /\ DistributionSpending > 0
    /\ FLt(distribution[1].cum_exp, distribution[1].cum_pop)
    /\ FLt(Rat(0), distribution[1].cum_exp)

====
